---- MODULE Spec2Model ----
(***************************************************************************)
(* Model of the image-unit comparison pipeline of paper-cv.go:             *)
(*   splitImageIntoUnits -> pair enumeration -> worker pool -> sink.        *)
(* Two builds of Run exist in the repository: one starts the sink as a     *)
(* goroutine before producing (cmd/icd/main.go, internal/comparator/       *)
(* comparator.go), the other calls saveDifferentPairs in the main          *)
(* goroutine after close(results) (unnamed/part_000).                      *)
(***************************************************************************)
EXTENDS Integers, Sequences, FiniteSets, TLC

(* ------------------------------ bounds --------------------------------- *)
MaxW == 3
MaxH == 2
MaxUnit == 2
MaxUnits == 4
MaxWorkers == 2
MaxDark == 1
MaxFailures == 1
\* bounds of the tiler-only specification
TileMaxW == 4
TileMaxH == 4
TileMaxUnit == 3
MaxOrigin == 1
\* bounds of the comparator-only specification
CmpMaxW == 2
CmpMaxH == 2
CmpMaxDark == 1

(* --------------------------- float64 values ---------------------------- *)
\* A float64 is a finite rational, math.MaxFloat64, +Inf or NaN.
Fin(n, d) == [k |-> "fin", num |-> n, den |-> d]
MaxFloat64 == [k |-> "max", num |-> 0, den |-> 1]
PosInf == [k |-> "inf", num |-> 0, den |-> 1]
NaN == [k |-> "nan", num |-> 0, den |-> 1]

Rank(f) == IF f.k = "fin" THEN 0 ELSE IF f.k = "max" THEN 1 ELSE 2

\* Go's  a > b  on float64: false as soon as one side is NaN.
Greater(a, b) ==
  IF a.k = "nan" \/ b.k = "nan" THEN FALSE
  ELSE IF a.k = "fin" /\ b.k = "fin" THEN a.num * b.den > b.num * a.den
  ELSE Rank(a) > Rank(b)

(* ------------------------------- tiler --------------------------------- *)
\* Go integer division truncates toward zero.
GoDiv(a, b) == IF a >= 0 THEN a \div b ELSE -((-a) \div b)

Min2(a, b) == IF a < b THEN a ELSE b
Max2(a, b) == IF a > b THEN a ELSE b

Rect(x0, y0, x1, y1) == [minX |-> x0, minY |-> y0, maxX |-> x1, maxY |-> y1]
Dx(r) == r.maxX - r.minX
Dy(r) == r.maxY - r.minY
Empty(r) == r.minX >= r.maxX \/ r.minY >= r.maxY
ZR == Rect(0, 0, 0, 0)

\* image.Rectangle.Intersect
Intersect(r, s) ==
  LET t == Rect(Max2(r.minX, s.minX), Max2(r.minY, s.minY),
                Min2(r.maxX, s.maxX), Min2(r.maxY, s.maxY))
  IN IF Empty(t) THEN ZR ELSE t

\* The grid coordinate splitImageIntoUnits gives the unit cut at (x, y).
UnitID(x, y, unitSize) == <<GoDiv(x, unitSize), GoDiv(y, unitSize)>>

\* Variant: the candidate rectangle is not clipped to the image bounds.
UnitRectUnclipped(x, y, unitSize, bounds) == Rect(x, y, x + unitSize, y + unitSize)

\* The clipped view of the unit cut at (x, y).
UnitRect(x, y, unitSize, bounds) ==
  Intersect(Rect(x, y, x + unitSize, y + unitSize), bounds)

RECURSIVE SplitRow(_, _, _, _, _)
SplitRow(x, y, bounds, unitSize, acc) ==
  IF x >= bounds.maxX THEN acc
  ELSE LET rect == UnitRect(x, y, unitSize, bounds)
       IN SplitRow(x + unitSize, y, bounds, unitSize,
                   IF Empty(rect) THEN acc
                   ELSE Append(acc, [ID |-> UnitID(x, y, unitSize), Img |-> rect]))

RECURSIVE SplitRows(_, _, _, _)
SplitRows(y, bounds, unitSize, acc) ==
  IF y >= bounds.maxY THEN acc
  ELSE SplitRows(y + unitSize, bounds, unitSize,
                 SplitRow(bounds.minX, y, bounds, unitSize, acc))

splitImageIntoUnits(bounds, unitSize) == SplitRows(bounds.minY, bounds, unitSize, <<>>)

(* ----------------------------- comparator ------------------------------ *)
\* Colours are 0 (background) and 1 (dark); the image is its bounds plus
\* the set of dark pixels.
At(image, x, y) == IF <<x, y>> \in image.dark THEN 1 ELSE 0

\* DistanceCIEDE2000 of two colours: symmetric, 0 on equal colours.
DeltaE == 4
Abs(a) == IF a < 0 THEN -a ELSE a
DistanceCIEDE2000(c1, c2) == Abs(c1 - c2) * DeltaE

\* Variant: the pixels are read at (x, y), without the views' offsets.
RECURSIVE SumRowNoOffset(_, _, _, _, _)
SumRowNoOffset(image, a, b, x, y) ==
  IF x >= Dx(a) THEN 0
  ELSE DistanceCIEDE2000(At(image, a.minX + x, a.minY + y), At(image, x, y))
       + SumRowNoOffset(image, a, b, x + 1, y)

RECURSIVE SumRow(_, _, _, _, _)
SumRow(image, a, b, x, y) ==
  IF x >= Dx(a) THEN 0
  ELSE DistanceCIEDE2000(At(image, a.minX + x, a.minY + y),
                         At(image, b.minX + x, b.minY + y))
       + SumRow(image, a, b, x + 1, y)

RECURSIVE SumRows(_, _, _, _)
SumRows(image, a, b, y) ==
  IF y >= Dy(a) THEN 0
  ELSE SumRow(image, a, b, 0, y) + SumRows(image, a, b, y + 1)

\* Variant: only a mismatch in both dimensions counts.
SizeMismatchBoth(a, b) == Dx(a) # Dx(b) /\ Dy(a) # Dy(b)

\* compareUnits / CPUComparator.Compare on two views a, b of the image.
SizeMismatch(a, b) == Dx(a) # Dx(b) \/ Dy(a) # Dy(b)

compareUnits(image, a, b) ==
  IF SizeMismatch(a, b) THEN MaxFloat64
  ELSE LET pixelCount == Dx(a) * Dy(a)
           totalDifference == SumRows(image, a, b, 0)
       IN IF pixelCount = 0 THEN Fin(0, 1)
          ELSE Fin(totalDifference, pixelCount)

(* ------------------------------ pipeline ------------------------------- *)
VARIABLES
  cfg,            \* Config: UnitSize, Threshold, CPUCores, and the build of Run
  img,            \* the decoded image: bounds and dark pixels
  units,          \* result of splitImageIntoUnits
  pcMain,         \* position of Run
  spawned,        \* workers started so far
  ij,             \* producer loop indices <<i, j>>
  jobs, jobsClosed,
  results, resultsClosed,
  wpc, wpair,     \* per worker: position and the pair it holds
  wg,             \* sync.WaitGroup counter of the workers
  spc, spair,     \* sink position and the pair it is saving
  dirs, files,    \* output directory: directories, files (path -> content)
  ioFailures,     \* I/O failures injected so far
  failedPairs,    \* history: pairs whose saving met an I/O failure
  enq,            \* history: pairs sent on jobs, in order
  cmpCount,       \* history: pair -> number of comparisons
  sent,           \* history: pair -> number of sends on results
  recvCount,      \* history: pair -> number of receptions by the sink
  panicked,       \* a goroutine panicked (send on / close of closed channel)
  dist,           \* results of calls of the comparator on its own
  err             \* what Run returned: "none" while running, "nil" on success

vars == <<cfg, img, units, pcMain, spawned, ij, jobs, jobsClosed, results,
          resultsClosed, wpc, wpair, wg, spc, spair, dirs, files, ioFailures,
          failedPairs, enq, cmpCount, sent, recvCount, panicked, dist, err>>

Workers == 1..MaxWorkers
NoPair == <<0, 0>>

n == Len(units)
AllPairs(m) == {p \in (1..m) \X (1..m) : p[1] < p[2]}

\* make(chan unitPair, len(units))
ChanCap(us) == Len(us)

\* Distance of the pair p and the worker's decision to forward it.
Diff(p) == compareUnits(img, units[p[1]].Img, units[p[2]].Img)
\* Variant: the comparison is not strict.
IsDifferentOrEqual(diff, threshold) == ~Greater(threshold, diff)
IsDifferent(diff, threshold) == Greater(diff, threshold)
Flagged(p) == IsDifferent(Diff(p), cfg.Threshold)

\* Producer loop control:  for i { for j := i+1; j < len; j++ { send } }
\* The next <<i, j>> at which a send happens, or NoPair when the loops end.
\* Variant: the inner loop starts at j = i, pairing a unit with itself.
RECURSIVE AdvanceFromI(_, _, _)
AdvanceFromI(i, j, m) ==
  IF i > m THEN NoPair
  ELSE IF j <= m THEN <<i, j>>
  ELSE AdvanceFromI(i + 1, i + 1, m)

RECURSIVE Advance(_, _, _)
Advance(i, j, m) ==
  IF i > m THEN NoPair
  ELSE IF j <= m THEN <<i, j>>
  ELSE Advance(i + 1, i + 2, m)

\* Variant: the directory is named by the first unit only.
DirNameOfA(p) == <<"unit", units[p[1]].ID[1], units[p[1]].ID[2]>>

\* Names in the output directory.
DirName(p) == <<"unit", units[p[1]].ID[1], units[p[1]].ID[2], "vs",
                "unit", units[p[2]].ID[1], units[p[2]].ID[2]>>
\* Variant: every unit file gets the same name.
FileNameFixed(u) == <<"unit", 0, 0, "png">>
FileName(u) == <<"unit", units[u].ID[1], units[u].ID[2], "png">>

Thresholds == {Fin(-1, 1), Fin(0, 1), Fin(1, 1), Fin(DeltaE, 1),
               MaxFloat64, PosInf, NaN}
Builds == {"sinkGoroutine", "sinkAfterWait"}

Pixels(b) == (b.minX..(b.maxX - 1)) \X (b.minY..(b.maxY - 1))

\* image.Decode yields an image whose bounds start at (0, 0); validateConfig
\* admits every UnitSize > 0, every CPUCores > 0 and every float64 Threshold.
Images ==
  {im \in [bounds : {Rect(0, 0, w, h) : w \in 1..MaxW, h \in 1..MaxH},
           dark : SUBSET ((0..(MaxW - 1)) \X (0..(MaxH - 1)))] :
     /\ im.dark \subseteq Pixels(im.bounds)
     /\ Cardinality(im.dark) <= MaxDark}

\* The state of Run before its first statement.
InitRun ==
  /\ units = <<>>
  /\ pcMain = "split"
  /\ spawned = 0
  /\ ij = NoPair
  /\ jobs = <<>> /\ jobsClosed = FALSE
  /\ results = <<>> /\ resultsClosed = FALSE
  /\ wpc = [w \in Workers |-> "idle"]
  /\ wpair = [w \in Workers |-> NoPair]
  /\ wg = 0
  /\ spc = "idle" /\ spair = NoPair
  /\ dirs = {} /\ files = <<>>
  /\ ioFailures = 0
  /\ failedPairs = {}
  /\ enq = <<>>
  /\ cmpCount = <<>> /\ sent = <<>> /\ recvCount = <<>>
  /\ panicked = FALSE
  /\ err = "none"

Init ==
  /\ img \in Images
  /\ cfg \in [UnitSize : 1..MaxUnit, Threshold : Thresholds,
              CPUCores : 1..MaxWorkers, Build : Builds]
  /\ Len(splitImageIntoUnits(img.bounds, cfg.UnitSize)) <= MaxUnits
  /\ dist = <<>>
  /\ InitRun

\* Inputs of the tiler alone: any bounds (the minimum corner need not be
\* (0, 0), the image may be empty) and any unitSize > 0.
TilerInit ==
  /\ \E x0, y0 \in (-MaxOrigin)..MaxOrigin, w \in 0..TileMaxW, h \in 0..TileMaxH :
       img = [bounds |-> Rect(x0, y0, x0 + w, y0 + h), dark |-> {}]
  /\ cfg \in [UnitSize : 1..TileMaxUnit, Threshold : {Fin(0, 1)},
              CPUCores : {1}, Build : {"sinkGoroutine"}]
  /\ dist = <<>>
  /\ InitRun

\* Inputs of the comparator alone: two views a, b of an image, of any
\* extents (empty ones included).
Views(b) ==
  {Rect(x0, y0, x1, y1) : x0 \in b.minX..b.maxX, x1 \in b.minX..b.maxX,
                          y0 \in b.minY..b.maxY, y1 \in b.minY..b.maxY}
CompareImages ==
  {im \in [bounds : {Rect(0, 0, CmpMaxW, CmpMaxH)},
           dark : SUBSET ((0..(CmpMaxW - 1)) \X (0..(CmpMaxH - 1)))] :
     Cardinality(im.dark) <= CmpMaxDark}
CompareInit ==
  /\ img \in CompareImages
  /\ cfg = [UnitSize |-> 1, Threshold |-> Fin(0, 1), CPUCores |-> 1,
            Build |-> "sinkGoroutine"]
  /\ \E a, b \in {v \in Views(img.bounds) : v.minX <= v.maxX /\ v.minY <= v.maxY} :
       dist = [a |-> a, b |-> b, out |-> <<>>]
  /\ InitRun


(* ---------------------------- channel helpers -------------------------- *)
\* Variant: a receive leaves the element in the buffer.
DequeueKeep(q) == q
\* A receive takes the element at the head of the buffer out of it.
Dequeue(q) == Tail(q)
\* Variant: a send puts the element at the head of the buffer.
EnqueueFront(q, p) == <<p>> \o q
\* Variant: a send puts the element into the buffer twice.
EnqueueTwice(q, p) == Append(Append(q, p), p)
\* A send appends to the buffer.
Enqueue(q, p) == Append(q, p)
Bump(f, p) == [f EXCEPT ![p] = @ + 1]

(* --------------------------------- Run --------------------------------- *)
\* Variant: off by one.
TooFewOffByOne(us) == Len(us) < 1

\* if len(units) < 2 { return nil }
TooFew(us) == Len(us) < 2

\* units := splitImageIntoUnits(img, cfg.UnitSize); fewer than 2: return nil.
Split ==
  /\ pcMain = "split"
  /\ LET us == splitImageIntoUnits(img.bounds, cfg.UnitSize)
         zero == [p \in AllPairs(Len(us)) |-> 0]
     IN /\ units' = us
        /\ cmpCount' = zero /\ sent' = zero /\ recvCount' = zero
        /\ IF TooFew(us)
           THEN pcMain' = "done" /\ err' = "nil"
           ELSE pcMain' = "spawn" /\ err' = err
  /\ UNCHANGED <<cfg, img, dist, failedPairs, spawned, ij, jobs, jobsClosed, results,
                 resultsClosed, wpc, wpair, wg, spc, spair, dirs, files,
                 ioFailures, enq, panicked>>

\* for i < cfg.CPUCores { wg.Add(1); go worker(...) }
SpawnWorker ==
  /\ pcMain = "spawn"
  /\ spawned < cfg.CPUCores
  /\ spawned' = spawned + 1
  /\ wg' = wg + 1
  /\ wpc' = [wpc EXCEPT ![spawned + 1] = "recv"]
  /\ UNCHANGED <<cfg, img, dist, failedPairs, units, pcMain, ij, jobs, jobsClosed, results,
                 resultsClosed, wpair, spc, spair, dirs, files, ioFailures,
                 enq, cmpCount, sent, recvCount, panicked, err>>

\* saveWg.Add(1); go func() { saveDifferentPairs(results, ...) }()
GoSink ==
  /\ pcMain = "spawn"
  /\ spawned = cfg.CPUCores
  /\ cfg.Build = "sinkGoroutine"
  /\ spc' = "recv"
  /\ pcMain' = "produce"
  /\ ij' = Advance(1, 2, n)
  /\ UNCHANGED <<cfg, img, dist, failedPairs, units, spawned, jobs, jobsClosed, results,
                 resultsClosed, wpc, wpair, wg, spair, dirs, files,
                 ioFailures, enq, cmpCount, sent, recvCount, panicked, err>>

\* The build without a sink goroutine goes straight to the producer loop.
StartProduce ==
  /\ pcMain = "spawn"
  /\ spawned = cfg.CPUCores
  /\ cfg.Build = "sinkAfterWait"
  /\ pcMain' = "produce"
  /\ ij' = Advance(1, 2, n)
  /\ UNCHANGED <<cfg, img, dist, failedPairs, units, spawned, jobs, jobsClosed, results,
                 resultsClosed, wpc, wpair, wg, spc, spair, dirs, files,
                 ioFailures, enq, cmpCount, sent, recvCount, panicked, err>>

\* jobs <- unitPair{units[i], units[j]}   (blocks while the buffer is full)
Produce ==
  /\ pcMain = "produce"
  /\ ij # NoPair
  /\ Len(jobs) < ChanCap(units)
  /\ jobs' = Enqueue(jobs, ij)
  /\ enq' = Append(enq, ij)
  /\ ij' = Advance(ij[1], ij[2] + 1, n)
  /\ UNCHANGED <<cfg, img, dist, failedPairs, units, pcMain, spawned, jobsClosed, results,
                 resultsClosed, wpc, wpair, wg, spc, spair, dirs, files,
                 ioFailures, cmpCount, sent, recvCount, panicked, err>>

\* close(jobs)
CloseJobs ==
  /\ pcMain = "produce"
  /\ ij = NoPair
  /\ jobsClosed' = TRUE
  /\ pcMain' = "wait"
  /\ UNCHANGED <<cfg, img, dist, failedPairs, units, spawned, ij, jobs, results, resultsClosed,
                 wpc, wpair, wg, spc, spair, dirs, files, ioFailures, enq,
                 cmpCount, sent, recvCount, panicked, err>>

\* Variant: the main goroutine goes on without waiting for the workers.
WaitWorkersNoWait ==
  /\ pcMain = "wait"
  /\ pcMain' = "closeResults"
  /\ UNCHANGED <<cfg, img, dist, failedPairs, units, spawned, ij, jobs, jobsClosed, results,
                 resultsClosed, wpc, wpair, wg, spc, spair, dirs, files,
                 ioFailures, enq, cmpCount, sent, recvCount, panicked, err>>

\* wg.Wait()
WaitWorkers ==
  /\ pcMain = "wait"
  /\ wg = 0
  /\ pcMain' = "closeResults"
  /\ UNCHANGED <<cfg, img, dist, failedPairs, units, spawned, ij, jobs, jobsClosed, results,
                 resultsClosed, wpc, wpair, wg, spc, spair, dirs, files,
                 ioFailures, enq, cmpCount, sent, recvCount, panicked, err>>

\* close(results); then saveWg.Wait(), or the call of saveDifferentPairs.
CloseResults ==
  /\ pcMain = "closeResults"
  /\ resultsClosed' = TRUE
  /\ pcMain' = "save"
  /\ spc' = IF cfg.Build = "sinkAfterWait" THEN "recv" ELSE spc
  /\ UNCHANGED <<cfg, img, dist, failedPairs, units, spawned, ij, jobs, jobsClosed, results,
                 wpc, wpair, wg, spair, dirs, files, ioFailures, enq,
                 cmpCount, sent, recvCount, panicked, err>>

\* saveWg.Wait() / saveDifferentPairs returns; return nil.
Finish ==
  /\ pcMain = "save"
  /\ spc = "done"
  /\ pcMain' = "done"
  /\ err' = "nil"
  /\ UNCHANGED <<cfg, img, dist, failedPairs, units, spawned, ij, jobs, jobsClosed, results,
                 resultsClosed, wpc, wpair, wg, spc, spair, dirs, files,
                 ioFailures, enq, cmpCount, sent, recvCount, panicked>>

(* ------------------------------- worker -------------------------------- *)
\* for pair := range jobs { diff := compareUnits(...); if diff > threshold ...
WorkerRecv(w) ==
  /\ wpc[w] = "recv"
  /\ jobs # <<>>
  /\ LET pair == Head(jobs)
     IN /\ jobs' = Dequeue(jobs)
        /\ cmpCount' = Bump(cmpCount, pair)
        /\ IF Flagged(pair)
           THEN /\ wpc' = [wpc EXCEPT ![w] = "send"]
                /\ wpair' = [wpair EXCEPT ![w] = pair]
           ELSE UNCHANGED <<wpc, wpair>>
  /\ UNCHANGED <<cfg, img, dist, failedPairs, units, pcMain, spawned, ij, jobsClosed, results,
                 resultsClosed, wg, spc, spair, dirs, files, ioFailures, enq,
                 sent, recvCount, panicked, err>>

\* Variant: the worker makes the pair's directory itself before it sends.
WorkerSendAndMkdir(w) ==
  /\ wpc[w] = "send"
  /\ resultsClosed \/ Len(results) < ChanCap(units)
  /\ IF resultsClosed
     THEN panicked' = TRUE /\ UNCHANGED <<results, sent>>
     ELSE /\ results' = Enqueue(results, wpair[w])
          /\ sent' = Bump(sent, wpair[w])
          /\ UNCHANGED panicked
  /\ dirs' = dirs \cup {DirName(wpair[w])}
  /\ wpc' = [wpc EXCEPT ![w] = "recv"]
  /\ wpair' = [wpair EXCEPT ![w] = NoPair]
  /\ UNCHANGED <<cfg, img, dist, failedPairs, units, pcMain, spawned, ij, jobs, jobsClosed,
                 resultsClosed, wg, spc, spair, files, ioFailures, enq,
                 cmpCount, recvCount, err>>

\* results <- pair   (blocks while the buffer is full; panics when closed)
WorkerSend(w) ==
  /\ wpc[w] = "send"
  /\ resultsClosed \/ Len(results) < ChanCap(units)
  /\ IF resultsClosed
     THEN panicked' = TRUE /\ UNCHANGED <<results, sent>>
     ELSE /\ results' = Enqueue(results, wpair[w])
          /\ sent' = Bump(sent, wpair[w])
          /\ UNCHANGED panicked
  /\ wpc' = [wpc EXCEPT ![w] = "recv"]
  /\ wpair' = [wpair EXCEPT ![w] = NoPair]
  /\ UNCHANGED <<cfg, img, dist, failedPairs, units, pcMain, spawned, ij, jobs, jobsClosed,
                 resultsClosed, wg, spc, spair, dirs, files, ioFailures, enq,
                 cmpCount, recvCount, err>>

\* Variant: the worker returns as soon as it finds the job queue empty.
WorkerReturnEarly(w) ==
  /\ wpc[w] = "recv"
  /\ jobs = <<>>
  /\ wpc' = [wpc EXCEPT ![w] = "done"]
  /\ wg' = wg - 1
  /\ UNCHANGED <<cfg, img, dist, failedPairs, units, pcMain, spawned, ij, jobs, jobsClosed,
                 results, resultsClosed, wpair, spc, spair, dirs, files,
                 ioFailures, enq, cmpCount, sent, recvCount, panicked, err>>

\* range jobs ends: the channel is closed and drained; defer wg.Done()
WorkerReturn(w) ==
  /\ wpc[w] = "recv"
  /\ jobs = <<>>
  /\ jobsClosed
  /\ wpc' = [wpc EXCEPT ![w] = "done"]
  /\ wg' = wg - 1
  /\ UNCHANGED <<cfg, img, dist, failedPairs, units, pcMain, spawned, ij, jobs, jobsClosed,
                 results, resultsClosed, wpair, spc, spair, dirs, files,
                 ioFailures, enq, cmpCount, sent, recvCount, panicked, err>>

(* -------------------------------- sink --------------------------------- *)
\* for pair := range results
SinkRecv ==
  /\ spc = "recv"
  /\ results # <<>>
  /\ spair' = Head(results)
  /\ results' = Dequeue(results)
  /\ recvCount' = Bump(recvCount, Head(results))
  /\ spc' = "mkdir"
  /\ UNCHANGED <<cfg, img, dist, failedPairs, units, pcMain, spawned, ij, jobs, jobsClosed,
                 resultsClosed, wpc, wpair, wg, dirs, files, ioFailures, enq,
                 cmpCount, sent, panicked, err>>

\* os.MkdirAll(pairDir): on error log and continue with the next pair.
SinkMkdir ==
  /\ spc = "mkdir"
  /\ \/ /\ dirs' = dirs \cup {DirName(spair)}
        /\ spc' = "saveA"
        /\ UNCHANGED <<spair, ioFailures, failedPairs>>
     \/ /\ ioFailures < MaxFailures
        /\ ioFailures' = ioFailures + 1
        /\ failedPairs' = failedPairs \cup {spair}
        /\ spc' = "recv"
        /\ spair' = NoPair
        /\ UNCHANGED dirs
  /\ UNCHANGED <<cfg, img, dist, units, pcMain, spawned, ij, jobs, jobsClosed,
                 results, resultsClosed, wpc, wpair, wg, files, enq,
                 cmpCount, sent, recvCount, panicked, err>>

WriteFile(fs, path, content) ==
  [q \in (DOMAIN fs) \cup {path} |-> IF q = path THEN content ELSE fs[q]]

\* saveUnit(unit, dir): os.Create, then png.Encode; errors are only logged.
saveUnit(u, dir, outcome) ==
  IF outcome = "ok"
    THEN WriteFile(files, <<dir, FileName(u)>>, [png |-> units[u].Img])
  ELSE IF outcome = "encodeError"
    THEN WriteFile(files, <<dir, FileName(u)>>, [png |-> "truncated"])
  ELSE files

Outcomes == {"ok", "createError", "encodeError"}

\* saveUnit(pair.UnitA, pairDir)
SinkSaveA ==
  /\ spc = "saveA"
  /\ \E o \in Outcomes :
       /\ o # "ok" => ioFailures < MaxFailures
       /\ ioFailures' = IF o = "ok" THEN ioFailures ELSE ioFailures + 1
       /\ failedPairs' = IF o = "ok" THEN failedPairs ELSE failedPairs \cup {spair}
       /\ files' = saveUnit(spair[1], DirName(spair), o)
  /\ spc' = "saveB"
  /\ UNCHANGED <<cfg, img, dist, units, pcMain, spawned, ij, jobs, jobsClosed,
                 results, resultsClosed, wpc, wpair, wg, spair, dirs, enq,
                 cmpCount, sent, recvCount, panicked, err>>

\* saveUnit(pair.UnitB, pairDir)
SinkSaveB ==
  /\ spc = "saveB"
  /\ \E o \in Outcomes :
       /\ o # "ok" => ioFailures < MaxFailures
       /\ ioFailures' = IF o = "ok" THEN ioFailures ELSE ioFailures + 1
       /\ failedPairs' = IF o = "ok" THEN failedPairs ELSE failedPairs \cup {spair}
       /\ files' = saveUnit(spair[2], DirName(spair), o)
  /\ spc' = "recv"
  /\ spair' = NoPair
  /\ UNCHANGED <<cfg, img, dist, units, pcMain, spawned, ij, jobs, jobsClosed,
                 results, resultsClosed, wpc, wpair, wg, dirs, enq,
                 cmpCount, sent, recvCount, panicked, err>>

\* range results ends: the channel is closed and drained.
SinkReturn ==
  /\ spc = "recv"
  /\ results = <<>>
  /\ resultsClosed
  /\ spc' = "done"
  /\ UNCHANGED <<cfg, img, dist, failedPairs, units, pcMain, spawned, ij, jobs, jobsClosed,
                 results, resultsClosed, wpc, wpair, wg, spair, dirs, files,
                 ioFailures, enq, cmpCount, sent, recvCount, panicked, err>>

(* ---------------------------- specification ---------------------------- *)
Main ==
  \/ Split \/ SpawnWorker \/ GoSink \/ StartProduce \/ Produce
  \/ CloseJobs \/ WaitWorkers \/ CloseResults \/ Finish

Worker(w) == WorkerRecv(w) \/ WorkerSend(w) \/ WorkerReturn(w)

Sink == SinkRecv \/ SinkMkdir \/ SinkSaveA \/ SinkSaveB \/ SinkReturn

Next == Main \/ (\E w \in Workers : Worker(w)) \/ Sink

Spec == Init /\ [][Next]_vars

\* The Go scheduler runs every goroutine that is able to take a step.
\* A call of the comparator in both argument orders and on a alone.
CompareCall ==
  /\ dist.out = <<>>
  /\ dist' = [dist EXCEPT !.out = [ab |-> compareUnits(img, dist.a, dist.b),
                                   ba |-> compareUnits(img, dist.b, dist.a),
                                   aa |-> compareUnits(img, dist.a, dist.a)]]
  /\ UNCHANGED <<cfg, img, units, pcMain, spawned, ij, jobs, jobsClosed,
                 results, resultsClosed, wpc, wpair, wg, spc, spair, dirs,
                 files, ioFailures, failedPairs, enq, cmpCount, sent,
                 recvCount, panicked, err>>

\* The comparator alone, on arbitrary pairs of views.
CompareNext == CompareCall
CompareSpec == CompareInit /\ [][CompareNext]_vars

\* The tiler alone, on arbitrary image bounds.
TilerNext == Split
TilerSpec == TilerInit /\ [][TilerNext]_vars

FairSpec ==
  /\ Spec
  /\ WF_vars(Main)
  /\ \A w \in Workers : WF_vars(Worker(w))
  /\ WF_vars(Sink)


(* ============================== properties ============================= *)
Done == pcMain = "done"
Greatest(p) == Greater(Diff(p), cfg.Threshold)
FlaggedPairs == {p \in AllPairs(n) : Greatest(p)}
Holding(p) == \E w \in Workers : wpc[w] = "send" /\ wpair[w] = p
LexLess(p, q) == p[1] < q[1] \/ (p[1] = q[1] /\ p[2] < q[2])

\* C1: no reachable state is a deadlock: until Run has returned, some
\* goroutine (producer, worker or sink) can always take a step.
C1_NoDeadlock == pcMain # "done" => ENABLED Next

\* C1 (liveness form): under fair scheduling every run reaches completion.
C1_Completes == <>(pcMain = "done")

\* C2: when a run completes, the sink has received every pair whose distance
\* is > threshold exactly once, and no other pair.
C2_ExactlyOnce ==
  (Done /\ n >= 2) =>
    \A p \in AllPairs(n) : recvCount[p] = IF Greatest(p) THEN 1 ELSE 0

C2_Witness ==
  /\ Done /\ n >= 2 /\ cfg.CPUCores = 2
  /\ \E p, q \in AllPairs(n) : recvCount[p] = 1 /\ recvCount[q] = 0 /\ cmpCount[q] = 1

\* C3: a worker sends a pair on results if and only if its distance is
\* strictly greater than the threshold: a compared pair is sent (or held by
\* a worker at its send) exactly when distance > threshold, and a pair whose
\* distance equals the threshold is neither.
C3_ForwardIffGreater ==
  pcMain \notin {"split"} =>
    \A p \in AllPairs(n) :
      /\ (sent[p] > 0 \/ Holding(p)) => Greatest(p)
      /\ (cmpCount[p] > 0 /\ Greatest(p)) => (sent[p] > 0 \/ Holding(p))

\* A pair whose distance equals the threshold has been compared and dropped.
C3_Witness ==
  /\ pcMain \notin {"split"}
  /\ \E p, q \in AllPairs(n) :
       /\ cmpCount[p] = 1 /\ sent[p] = 0 /\ ~Holding(p)
       /\ Diff(p).k = "fin" /\ cfg.Threshold.k = "fin"
       /\ Diff(p).num * cfg.Threshold.den = cfg.Threshold.num * Diff(p).den
       /\ sent[q] = 1

\* C4: every enumerated pair is dequeued and compared exactly once: never
\* more than once, no two workers hold the same pair, and at completion
\* every pair has been compared.
C4_ComparedOnce ==
  pcMain \notin {"split"} =>
    /\ \A p \in AllPairs(n) : cmpCount[p] <= 1
    /\ \A v, w \in Workers :
         (v # w /\ wpair[v] # NoPair) => wpair[v] # wpair[w]
    /\ (Done /\ n >= 2) => \A p \in AllPairs(n) : cmpCount[p] = 1

C4_Witness ==
  /\ Done /\ n = 4 /\ cfg.CPUCores = 2
  /\ \A p \in AllPairs(n) : cmpCount[p] = 1

\* C5: the producer enqueues the pairs (i, j), i < j, in lexicographic
\* order; once its loops have ended it has enqueued exactly n(n-1)/2 pairs,
\* every unordered combination of two distinct units exactly once.
C5_Enumeration ==
  /\ \A k \in 1..Len(enq) : enq[k][1] < enq[k][2] /\ enq[k] \in AllPairs(n)
  /\ \A k \in 1..(Len(enq) - 1) : LexLess(enq[k], enq[k + 1])
  /\ (jobsClosed /\ n >= 2) =>
       /\ 2 * Len(enq) = n * (n - 1)
       /\ {enq[k] : k \in 1..Len(enq)} = AllPairs(n)

C5_Witness == jobsClosed /\ n = 4 /\ Len(enq) = 6


(* ------------------ comparator sentinel, tiler, output ------------------ *)
ExtentsDiffer(p) ==
  \/ Dx(units[p[1]].Img) # Dx(units[p[2]].Img)
  \/ Dy(units[p[1]].Img) # Dy(units[p[2]].Img)

\* C6 (as stated): a compared pair whose units differ in extent is sent on
\* results (or held by a worker at its send), whatever the threshold.
C6_MismatchAlwaysFlagged ==
  \A p \in AllPairs(n) :
    (cmpCount[p] > 0 /\ ExtentsDiffer(p)) => (sent[p] > 0 \/ Holding(p))

\* C6 (amended): a pair whose units differ in extent gets the distance
\* math.MaxFloat64 and, once compared, is sent on results (or held by a
\* worker at its send) for every threshold that is not NaN and is strictly
\* below math.MaxFloat64.
C6_MismatchFlaggedBelowMax ==
  \A p \in AllPairs(n) :
    ExtentsDiffer(p) =>
      /\ Diff(p) = MaxFloat64
      /\ (cmpCount[p] > 0 /\ cfg.Threshold.k = "fin") =>
           (sent[p] > 0 \/ Holding(p))

C6_Witness ==
  \E p \in AllPairs(n) :
    ExtentsDiffer(p) /\ cfg.Threshold.k = "fin" /\ sent[p] = 1

Ceil(a, b) == (a + b - 1) \div b

\* C7: the tiler yields ceil(W/unitSize) * ceil(H/unitSize) units in
\* row-major order; the unit of row r and column c starts at
\* (minX + c*unitSize, minY + r*unitSize) and has the non-empty extent
\* min(unitSize, remaining pixels) in each dimension.
C7_Tiling ==
  pcMain # "split" =>
    LET b == img.bounds
        u == cfg.UnitSize
        cols == Ceil(Dx(b), u)
        rows == Ceil(Dy(b), u)
    IN /\ Len(units) = cols * rows
       /\ \A r \in 0..(rows - 1), c \in 0..(cols - 1) :
            LET v == units[r * cols + c + 1].Img
            IN /\ v.minX = b.minX + c * u
               /\ v.minY = b.minY + r * u
               /\ Dx(v) = Min2(u, Dx(b) - c * u)
               /\ Dy(v) = Min2(u, Dy(b) - r * u)
               /\ Dx(v) > 0 /\ Dy(v) > 0

\* A grid of at least 2 x 2 units with clipped right and bottom edges.
C7_Witness ==
  /\ pcMain # "split"
  /\ Len(units) >= 4
  /\ \E k, l, m \in 1..Len(units) :
       /\ Dx(units[k].Img) = cfg.UnitSize /\ Dy(units[k].Img) = cfg.UnitSize
       /\ Dx(units[l].Img) < cfg.UnitSize
       /\ Dy(units[m].Img) < cfg.UnitSize

\* The grid coordinate of the k-th unit of the row-major grid.
GridOf(k) ==
  LET cols == Ceil(Dx(img.bounds), cfg.UnitSize)
  IN <<(k - 1) % cols, (k - 1) \div cols>>
PairDir(p) == <<"unit", GridOf(p[1])[1], GridOf(p[1])[2], "vs",
                "unit", GridOf(p[2])[1], GridOf(p[2])[2]>>
UnitFile(k) == <<"unit", GridOf(k)[1], GridOf(k)[2], "png">>
FilesIn(d) == {f \in DOMAIN files : f[1] = d}

\* C8: when a run completes without I/O failure, the output root holds
\* exactly one directory per flagged pair, named by both units' grid
\* coordinates, and each holds exactly two files, one per unit, each named
\* by its unit's grid coordinate and holding that unit's pixels.
C8_OutputLayout ==
  (Done /\ n >= 2 /\ ioFailures = 0) =>
    /\ dirs = {PairDir(p) : p \in FlaggedPairs}
    /\ Cardinality(dirs) = Cardinality(FlaggedPairs)
    /\ \A f \in DOMAIN files : f[1] \in dirs
    /\ \A p \in FlaggedPairs :
         /\ FilesIn(PairDir(p)) = {<<PairDir(p), UnitFile(p[1])>>,
                                   <<PairDir(p), UnitFile(p[2])>>}
         /\ Cardinality(FilesIn(PairDir(p))) = 2
         /\ \A k \in {p[1], p[2]} :
              files[<<PairDir(p), UnitFile(k)>>] = [png |-> units[k].Img]

C8_Witness ==
  /\ Done /\ n = 4 /\ ioFailures = 0
  /\ Cardinality(dirs) = 3
  /\ Cardinality(DOMAIN files) = 6

\* C9: a pair whose saving met an I/O failure leaves no file in the output
\* directory, every other flagged pair is saved in full, and Run returns nil.
C9_FailedPairDropped ==
  (Done /\ n >= 2) =>
    /\ err = "nil"
    /\ \A p \in failedPairs : FilesIn(DirName(p)) = {}
    /\ \A p \in FlaggedPairs \ failedPairs :
         Cardinality(FilesIn(DirName(p))) = 2

\* C10: with fewer than 2 units Run returns nil at once: nothing was put on
\* a queue, no worker and no sink was started, nothing was written.
C10_NoOp ==
  (pcMain # "split" /\ n < 2) =>
    /\ pcMain = "done" /\ err = "nil"
    /\ enq = <<>> /\ jobs = <<>> /\ results = <<>>
    /\ ~jobsClosed /\ ~resultsClosed
    /\ spawned = 0 /\ wg = 0
    /\ \A w \in Workers : wpc[w] = "idle"
    /\ spc = "idle"
    /\ dirs = {} /\ files = <<>>

C10_Witness == pcMain = "done" /\ n = 1 /\ err = "nil"

(* ------------------------------ determinism ----------------------------- *)
\* What the inputs alone (image, UnitSize, Threshold) say the output
\* directory must hold; CPUCores, the build and the schedule do not occur.
ExpectedDirs == {PairDir(p) : p \in FlaggedPairs}
ExpectedPaths ==
  UNION {{<<PairDir(p), UnitFile(p[1])>>, <<PairDir(p), UnitFile(p[2])>>} :
           p \in FlaggedPairs}
UnitAt(g) == CHOOSE k \in 1..n : GridOf(k) = g
ExpectedFiles ==
  [f \in ExpectedPaths |-> [png |-> units[UnitAt(<<f[2][2], f[2][3]>>)].Img]]

\* C11: two runs on the same inputs, started on an empty output directory
\* and meeting no I/O failure, end with the same directories and files: the
\* final output is a function of the inputs alone, whatever the interleaving
\* of the workers, the order of arrival at the sink and CPUCores.
C11_OutputDeterminedByInputs ==
  (Done /\ n >= 2 /\ ioFailures = 0) =>
    /\ dirs = ExpectedDirs
    /\ files = ExpectedFiles

\* A run of two workers that saved at least three pairs.
C11_Witness ==
  /\ Done /\ ioFailures = 0 /\ cfg.CPUCores = 2
  /\ Cardinality(dirs) >= 3
  /\ files = ExpectedFiles

(* ------------------------------ comparator ------------------------------ *)
FloatEq(f, g) ==
  IF f.k = "fin" /\ g.k = "fin" THEN f.num * g.den = g.num * f.den
  ELSE f.k = g.k /\ f.k # "nan"

RECURSIVE SumOver(_, _, _)
SumOver(S, a, b) ==
  IF S = {} THEN 0
  ELSE LET o == CHOOSE o \in S : TRUE
       IN Abs(At(img, a.minX + o[1], a.minY + o[2])
              - At(img, b.minX + o[1], b.minY + o[2])) * DeltaE
          + SumOver(S \ {o}, a, b)
Offsets(a) == (0..(Dx(a) - 1)) \X (0..(Dy(a) - 1))
SameExtent(a, b) == Dx(a) = Dx(b) /\ Dy(a) = Dy(b)

\* C12: compare(a, a) = 0 and compare(a, b) = compare(b, a); views of equal
\* extent get the mean of the per-pixel deltas, views of different extents
\* get math.MaxFloat64 in both argument orders, and views of equal extent
\* without pixels get 0.
C12_Comparator ==
  dist.out # <<>> =>
    LET a == dist.a
        b == dist.b
    IN /\ FloatEq(dist.out.aa, Fin(0, 1))
       /\ FloatEq(dist.out.ab, dist.out.ba)
       /\ (SameExtent(a, b) /\ Dx(a) * Dy(a) > 0) =>
            dist.out.ab = Fin(SumOver(Offsets(a), a, b), Dx(a) * Dy(a))
       /\ (SameExtent(a, b) /\ Dx(a) * Dy(a) = 0) => dist.out.ab = Fin(0, 1)
       /\ ~SameExtent(a, b) =>
            dist.out.ab = MaxFloat64 /\ dist.out.ba = MaxFloat64

\* Two different views of two pixels each whose mean delta is not 0.
C12_Witness ==
  /\ dist.out # <<>>
  /\ SameExtent(dist.a, dist.b) /\ dist.a # dist.b
  /\ Dx(dist.a) * Dy(dist.a) = 2
  /\ dist.out.ab.num > 0
  /\ FloatEq(dist.out.ab, dist.out.ba)

(* --------------------------- close of results --------------------------- *)
AllWorkersReturned ==
  /\ wg = 0
  /\ \A w \in Workers : wpc[w] = IF w <= cfg.CPUCores THEN "done" ELSE "idle"

\* C13: the result queue is closed only after every worker has returned; no
\* worker sends, or is about to send, on the closed result queue; and the
\* queue is closed exactly once per run: never again once closed, and always
\* by the end of a run on two units or more.
C13_ResultsClosedAfterWorkers ==
  /\ resultsClosed => AllWorkersReturned
  /\ ~panicked
  /\ (pcMain = "closeResults") => (~resultsClosed /\ AllWorkersReturned)
  /\ (pcMain \in {"save", "done"} /\ n >= 2) => resultsClosed

\* The result queue was closed after two workers forwarded three pairs or more.
C13_Witness ==
  /\ resultsClosed /\ cfg.CPUCores = 2
  /\ \A w \in Workers : wpc[w] = "done"
  /\ Cardinality({p \in AllPairs(n) : sent[p] = 1}) >= 3

(* --------------------------- queue capacities --------------------------- *)
PairCount(m) == (m * (m - 1)) \div 2

\* C14: the output queue has room for every pair, so a worker's send of a
\* flagged pair never blocks: whenever a worker is about to send, the output
\* queue holds fewer pairs than its capacity.
C14_SendNeverBlocks ==
  \A w \in Workers : wpc[w] = "send" => Len(results) < ChanCap(units)

\* C15: the job queue has room for every pair, so the producer never blocks:
\* whenever the producer is about to enqueue a pair, the job queue holds
\* fewer pairs than its capacity.
C15_ProducerNeverBlocks ==
  (pcMain = "produce" /\ ij # NoPair) => Len(jobs) < ChanCap(units)

(* ----------------------------- close of jobs ---------------------------- *)
\* C16: the job queue is closed only after all n(n-1)/2 pairs have been
\* enqueued, and exactly once: not before the producer loop has ended, and
\* always after it; no pair is enqueued after the close; a worker has
\* returned only if the job queue is closed and empty.
C16_JobsClosedAfterAllEnqueued ==
  /\ jobsClosed =>
       /\ Len(enq) = PairCount(n) /\ ij = NoPair
       /\ \A p \in AllPairs(n) : \E k \in 1..Len(enq) : enq[k] = p
  /\ pcMain \in {"split", "spawn", "produce"} => ~jobsClosed
  /\ (pcMain \in {"wait", "closeResults", "save", "done"} /\ n >= 2) => jobsClosed
  /\ \A w \in Workers : wpc[w] = "done" => (jobsClosed /\ jobs = <<>>)

\* Of two workers on six pairs, one has returned while the other still holds
\* a pair to send.
C16_Witness ==
  /\ jobsClosed /\ Len(enq) = 6
  /\ \E w, v \in Workers : wpc[w] = "done" /\ wpc[v] = "send"

(* ---------------------------- order of hand-out ------------------------- *)
Dequeued == Len(enq) - Len(jobs)

\* C17: pairs are handed to the workers in enumeration order: the pairs are
\* enqueued in lexicographic (i, j) order, the job queue holds the last of
\* them in that order, and the pairs dequeued so far, by all workers
\* together, are exactly the ones before those; hence every dequeue takes
\* the next pair of the enumeration.
C17_DequeueInEnumerationOrder ==
  /\ \A k, l \in 1..Len(enq) : k < l => LexLess(enq[k], enq[l])
  /\ Dequeued >= 0
  /\ jobs = SubSeq(enq, Dequeued + 1, Len(enq))
  /\ {p \in AllPairs(n) : cmpCount[p] >= 1} = {enq[k] : k \in 1..Dequeued}

\* Two workers took the six pairs in enumeration order, and two flagged pairs
\* wait for the sink in the opposite order.
C17_Witness ==
  /\ cfg.CPUCores = 2 /\ Dequeued = 6
  /\ \E k, l \in 1..Len(results) :
       k < l /\ LexLess(results[l], results[k])

(* ------------------------- writes to the output ------------------------- *)
SinkWriting == spc \in {"mkdir", "saveA", "saveB"}

\* C18: the output directory is written by the single sink only: every step
\* that changes the directories or files is a step of the sink at one of its
\* writes (os.MkdirAll, saveUnit) and moves no worker and not the main
\* goroutine; the sink, once started, is never started again.  The sink
\* being one sequential process, no two writes are concurrent.
C18_OnlySinkWrites ==
  [][/\ (dirs' # dirs \/ files' # files) =>
          (SinkWriting /\ spc' # spc /\ wpc' = wpc /\ wpair' = wpair
             /\ pcMain' = pcMain)
     /\ (spc # "idle") => (spc' # "idle")
     /\ (spc = "idle" /\ spc' # "idle") => (spc' = "recv" /\ pcMain' # pcMain)]_vars

\* The sink is writing the second file of a pair while a worker holds a pair
\* to send and the producer is still enqueuing.
C18_Witness ==
  /\ spc = "saveB" /\ files # <<>>
  /\ pcMain = "produce"
  /\ \E w \in Workers : wpc[w] = "send"

(* --------------------------- grid coordinates --------------------------- *)
\* C19: the tiler gives pairwise distinct grid coordinates to the units it
\* emits, whatever the image bounds and unitSize > 0; so two different pairs
\* of units never get the same directory name, and two different units never
\* the same file name.
C19_DistinctGridCoordinates ==
  pcMain # "split" =>
    /\ \A i, j \in 1..n : i # j => units[i].ID # units[j].ID
    /\ \A p, q \in AllPairs(n) : p # q => DirName(p) # DirName(q)
    /\ \A i, j \in 1..n : i # j => FileName(i) # FileName(j)

====
